---- MODULE Spec2Model ----
(***************************************************************************)
(* Lifecycle of the Lua engine objects of unicorn-lua (src/src/engine.c):  *)
(* the engine userdata, the weak pointer map in the Lua registry, the      *)
(* per-engine hook table, the context userdata, and the calls this layer   *)
(* makes into the Unicorn library.                                         *)
(***************************************************************************)
EXTENDS Integers, Sequences, FiniteSets, TLC

\* ---------------------------------------------------------------- bounds
MaxWrappers == 2        \* engine userdata ever created
MaxHooks == 3           \* hook handles uc_hook_add ever hands out
MaxSnapshots == 2       \* context userdata ever created
MaxFailures == 1        \* error statuses uc_close ever returns

\* ------------------------------------------------------- program constants
NULL == 0               \* (uc_engine *)NULL; also nil in the pointer map
LUA_NOREF == -2         \* lauxlib.h

Wrappers == 1..MaxWrappers
Handles == 1..MaxWrappers  \* uc_engine addresses the library can hand out
Refs == 1..MaxWrappers     \* registry references luaL_ref can return

VARIABLES
    status,          \* w -> "unalloc" | "held" | "tobefnz" | "freed"
    engine,          \* w -> engine_object->engine (NULL when closed)
    hook_table_ref,  \* w -> engine_object->hook_table_ref
    refs,            \* registry references currently handed out by luaL_ref
    freeRefs,        \* the registry's list of released references, last first
    hookTable,       \* ref -> keys of the hook table, in insertion order
    nextHook,        \* number of hook handles uc_hook_add has handed out
    ptrMap,          \* registry[kEnginePointerMapName]: handle -> w, or NULL (nil)
    ucLive,          \* engines open inside the Unicorn library
    ucUsed,          \* number of distinct addresses uc_open has handed out
    failures,        \* number of error statuses uc_close has returned
    ucCloses,        \* w -> number of uc_close calls made for w
    explicit,        \* w -> the host has called close on w itself
    nSnap,           \* number of context userdata the host holds
    contexts,        \* context userdata -> the context the library allocated
    madeVia,         \* engine object the newest context was made through
    crashed,         \* the process died (undefined behaviour took the crash)
    last             \* the host operation that ran last, and its outcome

vars == <<status, engine, hook_table_ref, refs, freeRefs, hookTable, nextHook,
          ptrMap, ucLive, ucUsed, failures, ucCloses, explicit, nSnap, contexts,
          madeVia, crashed, last>>

\* What an operation that touches no engine object leaves alone.
engineVars == <<status, engine, hook_table_ref, refs, freeRefs, hookTable,
                nextHook, ptrMap, ucLive, ucUsed, failures, ucCloses, explicit,
                crashed>>

Range(s) == {s[i] : i \in 1..Len(s)}

\* The outcome of one host operation: op, the engine object it ran on, its
\* other arguments (for a close, the keys of the hook table it found, in
\* insertion order), the error it raised ("none" when it returned), the
\* value it returned (an object id, 0 for none) and the calls it made into
\* the Unicorn library and the hook manager, in order, each with what it was
\* given. uc_err is the status of the last call into the Unicorn library
\* that returns one ("none" without such a call), ctx the uc_context pointer
\* handed to the library (<<>> when none was).
Outcome(op, w, arg, err, ret, nat) ==
    [op |-> op, w |-> w, arg |-> arg, err |-> err, ret |-> ret, nat |-> nat,
     again |-> FALSE, uc_err |-> "none", ctx |-> <<>>]

\* The outcome of a close call; again: a close call was made on w before.
CloseOutcome(op, w, arg, err, nat, again) ==
    [Outcome(op, w, arg, err, 0, nat) EXCEPT !.again = again]

NoOp == Outcome("init", 0, <<>>, "none", 0, <<>>)

Init ==
    /\ status = [w \in Wrappers |-> "unalloc"]
    /\ engine = [w \in Wrappers |-> NULL]
    /\ hook_table_ref = [w \in Wrappers |-> LUA_NOREF]
    /\ refs = {}
    /\ freeRefs = <<>>
    /\ hookTable = [r \in Refs |-> <<>>]
    /\ nextHook = 0
    /\ ptrMap = [h \in Handles |-> NULL]
    /\ ucLive = {}
    /\ ucUsed = 0
    /\ failures = 0
    /\ ucCloses = [w \in Wrappers |-> 0]
    /\ explicit = [w \in Wrappers |-> FALSE]
    /\ nSnap = 0
    /\ contexts = <<>>
    /\ madeVia = 0
    /\ crashed = FALSE
    /\ last = NoOp

\* ------------------------------------------------------------ the registry
\* Register with a bug: the pointer map is rebuilt around the new entry.
Register_clobber(map, h, w) == [x \in DOMAIN map |-> IF x = h THEN w ELSE NULL]

\* lua_settable(pointer map, engine, engine object)
Register(map, h, w) == [map EXCEPT ![h] = w]

\* Unregister with a bug: the entry is left in the pointer map.
Unregister_skipped(map, h) == map

\* Unregister with a bug: every entry leaves the pointer map.
Unregister_all(map, h) == [x \in DOMAIN map |-> NULL]

\* lua_settable(pointer map, engine, nil)
Unregister(map, h) == [map EXCEPT ![h] = NULL]

\* The garbage collector clears the weak values that designate w before it
\* runs w's finalizer.
ClearWeak(map, w) == [h \in Handles |-> IF map[h] = w THEN NULL ELSE map[h]]

\* luaL_ref with a bug: a reference that is in use is handed out again.
luaL_ref_inUse ==
    IF refs # {} THEN CHOOSE r \in refs : TRUE ELSE Cardinality(refs) + 1

\* luaL_ref hands out the reference released last, or else the next index
\* of the registry.
luaL_ref ==
    IF freeRefs # <<>> THEN Head(freeRefs) ELSE Cardinality(refs) + 1

\* uc_open hands out an engine that is not open already: the address of an
\* engine closed before, or the next new address.
uc_open == {h \in Handles \ ucLive : h <= ucUsed + 1}

\* The statuses uc_close can return: UC_ERR_OK (TRUE) or, within the bound,
\* an error.
uc_close == {TRUE} \cup {ok \in {FALSE} : failures < MaxFailures}

\* The status a call into the Unicorn library returned.
Ok(out) == [out EXCEPT !.uc_err = "UC_ERR_OK"]

Failed(out) == [out EXCEPT !.uc_err = "error"]

\* ul_crash_on_error(L, error): raises the error to the caller.
ul_crash_on_error(out) == [out EXCEPT !.err = "native", !.ret = 0]

\* ------------------------------------------------------------- creation
\* NewEngineField with a bug: another engine's address is stored.
NewEngineField_other(h) == IF h = 1 THEN 2 ELSE 1

\* engine_object->engine = engine
NewEngineField(h) == h

ul_create_engine_object(w, h) ==
    LET r == luaL_ref
    IN  /\ engine' = [engine EXCEPT ![w] = NewEngineField(h)]
        /\ ptrMap' = Register(ptrMap, h, w)
        /\ refs' = refs \cup {r}
        /\ freeRefs' = IF freeRefs = <<>> THEN freeRefs ELSE Tail(freeRefs)
        /\ hookTable' = [hookTable EXCEPT ![r] = <<>>]
        /\ hook_table_ref' = [hook_table_ref EXCEPT ![w] = r]

\* NewWrapper with a bug: the userdata of a closed engine is taken again.
NewWrapper_recycled ==
    IF \E w \in Wrappers : status[w] = "held" /\ engine[w] = NULL
    THEN CHOOSE w \in Wrappers : status[w] = "held" /\ engine[w] = NULL
    ELSE CHOOSE w \in Wrappers : status[w] = "unalloc"

\* The next engine userdata lua_newuserdata allocates.
NewWrapper ==
    CHOOSE w \in Wrappers :
        status[w] = "unalloc" /\ \A v \in Wrappers : status[v] = "unalloc" => w <= v

\* unicorn.open: uc_open, then the engine object for the new engine.
Open ==
    /\ ~crashed
    /\ \E w \in Wrappers : status[w] = "unalloc"
    /\ \E h \in uc_open :
        /\ ul_create_engine_object(NewWrapper, h)
        /\ ucLive' = ucLive \cup {h}
        /\ ucUsed' = IF h > ucUsed THEN h ELSE ucUsed
        /\ status' = [status EXCEPT ![NewWrapper] = "held"]
        /\ last' = Outcome("open", NewWrapper, <<h>>, "none", NewWrapper,
                           <<<<"uc_open", h, 0>>>>)
    /\ UNCHANGED <<nextHook, failures, ucCloses, explicit, nSnap, contexts, madeVia,
                   crashed>>

\* ------------------------------------------------------------ hook table
\* uc_hook_add hands out a hook handle the engine does not have yet; the
\* handles of one engine are numbered in the order they were handed out.
uc_hook_add(t) == Len(t) + 1

\* The hook manager's hook_add: the new hook handle becomes a key of the
\* engine's hook table.
HookAdd(w) ==
    /\ ~crashed
    /\ status[w] = "held"
    /\ engine[w] # NULL
    /\ hook_table_ref[w] # LUA_NOREF
    /\ nextHook < MaxHooks
    /\ hookTable' = [hookTable EXCEPT
                       ![hook_table_ref[w]] = Append(@, uc_hook_add(@))]
    /\ nextHook' = nextHook + 1
    /\ last' = Outcome("hook_add", w, <<>>, "none", 0, <<>>)
    /\ UNCHANGED <<status, engine, hook_table_ref, refs, freeRefs, ptrMap,
                   ucLive, ucUsed, failures, ucCloses, explicit,
                   nSnap, contexts, madeVia, crashed>>

\* The hook manager's delete: the entry of hook k leaves the hook table.
ul_hook_del_by_indexes(t, k) == SelectSeq(t, LAMBDA x : x # k)

\* ------------------------------------------------------------------ close
\* lua_next with a bug: the traversal loses the key it started from.
lua_next_skipping(t) ==
    {o \in [1..(Len(t) - 1) -> Range(t)] :
        \A i, j \in 1..(Len(t) - 1) : i # j => o[i] # o[j]}

\* The traversals lua_next can make of a table whose keys are t: every key
\* once, in an order the Lua manual leaves unspecified.
lua_next(t) ==
    {o \in [1..Len(t) -> Range(t)] :
        \A i, j \in 1..Len(t) : i # j => o[i] # o[j]}

\* Teardown with a bug: uc_close runs before the hooks are deleted.
Teardown_closeFirst(h, order) ==
    <<<<"uc_close", h, 0>>>> \o [i \in 1..Len(order) |-> <<"hook_del", h, order[i]>>]

\* The calls the teardown of engine h makes: the hook manager's delete for
\* each key the traversal yields, then uc_close.
Teardown(h, order) ==
    [i \in 1..Len(order) |-> <<"hook_del", h, order[i]>>] \o <<<<"uc_close", h, 0>>>>

RECURSIVE Drain(_, _)
Drain(t, order) ==
    IF order = <<>> THEN t
    ELSE Drain(ul_hook_del_by_indexes(t, Head(order)), Tail(order))

\* ClosedPointer with a bug: the engine pointer is left in the object.
ClosedPointer_kept(h) == h

\* engine_object->engine = NULL
ClosedPointer(h) == NULL

\* A close call (explicit or __gc) was made on w before.
ClosedBefore(w) == explicit[w] \/ status[w] = "freed"

\* Lines 99-128 on an engine whose pointer is not NULL: the hooks the
\* traversal yields are deleted, the hook table reference is released,
\* uc_close is called and returns ok or an error; an error raises before
\* the pointer map and the engine pointer are touched.
CloseOpen(w, order, ok, op) ==
    LET h == engine[w]
        r == hook_table_ref[w]
        found == IF r = LUA_NOREF THEN <<>> ELSE hookTable[r]
        out == CloseOutcome(op, w, found, "none", Teardown(h, order),
                            ClosedBefore(w))
    IN  /\ ucCloses' = [ucCloses EXCEPT ![w] = @ + 1]
        /\ hookTable' = IF r = LUA_NOREF THEN hookTable
                        ELSE [hookTable EXCEPT ![r] = Drain(@, order)]
        /\ refs' = refs \ {r}
        /\ freeRefs' = IF r = LUA_NOREF THEN freeRefs ELSE <<r>> \o freeRefs
        /\ hook_table_ref' = [hook_table_ref EXCEPT ![w] = LUA_NOREF]
        /\ crashed' = crashed
        /\ IF ok
           THEN /\ ucLive' = ucLive \ {h}
                /\ ptrMap' = Unregister(ptrMap, h)
                /\ engine' = [engine EXCEPT ![w] = ClosedPointer(h)]
                /\ failures' = failures
                /\ last' = Ok(out)
           ELSE /\ failures' = failures + 1
                /\ last' = ul_crash_on_error(Failed(out))
                /\ UNCHANGED <<ucLive, ptrMap, engine>>

\* lua_geti(registry, LUA_NOREF) pushes nil, and lua_next on a value that is
\* no table is undefined: the process dies there.
CloseCrash(w, op) ==
    /\ crashed' = TRUE
    /\ last' = CloseOutcome(op, w, <<>>, "crash", <<>>, ClosedBefore(w))
    /\ UNCHANGED <<engine, hook_table_ref, refs, freeRefs, hookTable, ptrMap,
                   ucLive, failures, ucCloses>>

\* ul_free_engine_object with a bug: the NULL check of lines 96-97 is missing.
ul_free_engine_object_unchecked(w, op) ==
    IF hook_table_ref[w] = LUA_NOREF
    THEN \/ CloseCrash(w, op)
         \/ \E ok \in uc_close : CloseOpen(w, <<>>, ok, op)
    ELSE \E order \in lua_next(hookTable[hook_table_ref[w]]), ok \in uc_close :
             CloseOpen(w, order, ok, op)

ul_free_engine_object(w, op) ==
    IF engine[w] = NULL
    THEN /\ last' = CloseOutcome(op, w, <<>>, "none", <<>>, ClosedBefore(w))
         /\ UNCHANGED <<engine, hook_table_ref, refs, freeRefs, hookTable,
                        ptrMap, ucLive, failures, ucCloses, crashed>>
    ELSE IF hook_table_ref[w] = LUA_NOREF
    THEN \/ CloseCrash(w, op)
         \/ \E ok \in uc_close : CloseOpen(w, <<>>, ok, op)
    ELSE \E order \in lua_next(hookTable[hook_table_ref[w]]), ok \in uc_close :
             CloseOpen(w, order, ok, op)

ul_close(w, op) == ul_free_engine_object(w, op)

\* engine:close() called by the host.
Close(w) ==
    /\ ~crashed
    /\ status[w] = "held"
    /\ ul_close(w, "close")
    /\ explicit' = [explicit EXCEPT ![w] = TRUE]
    /\ UNCHANGED <<status, nextHook, ucUsed, nSnap, contexts, madeVia>>

\* ------------------------------------------------------ garbage collection
\* The host drops its last reference to the engine object and a collection
\* cycle finds it unreachable: its entry leaves the weak pointer map and the
\* object waits for its finalizer.
Collect(w) ==
    /\ ~crashed
    /\ status[w] = "held"
    /\ status' = [status EXCEPT ![w] = "tobefnz"]
    /\ ptrMap' = ClearWeak(ptrMap, w)
    /\ last' = Outcome("collect", w, <<>>, "none", 0, <<>>)
    /\ UNCHANGED <<engine, hook_table_ref, refs, freeRefs, hookTable, nextHook,
                   ucLive, ucUsed, failures, ucCloses, explicit,
                   nSnap, contexts, madeVia, crashed>>

\* The collector calls __gc, which is ul_close, once; the object's memory is
\* reclaimed afterwards whether or not the finalizer raised.
Finalize(w) ==
    /\ ~crashed
    /\ status[w] = "tobefnz"
    /\ ul_close(w, "gc")
    /\ status' = [status EXCEPT ![w] = "freed"]
    /\ UNCHANGED <<nextHook, ucUsed, explicit, nSnap, contexts, madeVia>>

\* ----------------------------------------------------------------- lookup
\* ul_get_engine_object with a bug: the nil check is missing.
ul_get_engine_object_unchecked(h) ==
    /\ last' = Outcome("lookup", ptrMap[h], <<h>>, "none", ptrMap[h], <<>>)
    /\ ptrMap' = ptrMap

ul_get_engine_object(h) ==
    /\ last' = IF ptrMap[h] = NULL
               THEN Outcome("lookup", 0, <<h>>, "notfound", 0, <<>>)
               ELSE Outcome("lookup", ptrMap[h], <<h>>, "none", ptrMap[h], <<>>)
    /\ ptrMap' = ptrMap

\* A hook callback (or any caller holding a bare uc_engine pointer) asks for
\* the engine object.
Lookup(h) ==
    /\ ~crashed
    /\ ul_get_engine_object(h)
    /\ UNCHANGED <<status, engine, hook_table_ref, refs, freeRefs, hookTable,
                   nextHook, ucLive, ucUsed, failures, ucCloses, explicit, nSnap,
                   contexts, madeVia, crashed>>

\* ------------------------------------------------------- guarded accessor
\* ul_toengine with a bug: the NULL check is missing.
ul_toengine_unchecked(w) == TRUE

\* ul_toengine returns the engine pointer of w; it raises the closed-engine
\* error instead when the pointer is NULL.
ul_toengine(w) == engine[w] # NULL

ClosedEngine(op, w, arg) == Outcome(op, w, arg, "closed", 0, <<>>)

\* Native with a bug: an error status is not raised.
Native_swallowed(out) ==
    \E ok \in BOOLEAN : last' = IF ok THEN Ok(out) ELSE Failed(out)

\* A call into the Unicorn library that returns a status: out is the outcome
\* when the status is UC_ERR_OK; any other status is raised.
Native(out) ==
    \E ok \in BOOLEAN :
        last' = IF ok THEN Ok(out) ELSE ul_crash_on_error(Failed(out))

\* -------------------------------------------------------------- contexts
\* The uc_context uc_context_alloc allocates; the library's contexts are
\* numbered like the userdata they were allocated for.
uc_context_alloc == nSnap + 1

\* The context userdata for which the library allocated the context native.
NewContext(native) == [native |-> native]

\* ul_tocontext: the uc_context pointer read from the block of the userdata.
\* uc_context_alloc(engine, &context) writes the local variable and nothing
\* writes the block, so the read yields whatever lua_newuserdata left there:
\* no context at all (NULL) or, by chance, the address the library allocated.
ul_tocontext(c) == {NULL, c.native}

\* WithContext with a bug: the newest context is refused once the engine
\* it was made through is closed.
WithContext_viaOpen(out, ptr, c) ==
    IF c.native = nSnap /\ engine[madeVia] = NULL
    THEN [out EXCEPT !.err = "closed", !.nat = <<>>]
    ELSE [out EXCEPT !.ctx = <<ptr>>]

\* The library is handed the pointer ptr read from context userdata c.
WithContext(out, ptr, c) == [out EXCEPT !.ctx = <<ptr>>]

\* The contexts an operation leaves as they were.
SameContexts == UNCHANGED <<nSnap, contexts, madeVia>>

\* The new userdata, made through w, stays with the host when the operation
\* returns; when it raises, the userdata is garbage.
Keep(c, w) ==
    IF last'.err = "none"
    THEN /\ nSnap' = nSnap + 1
         /\ contexts' = Append(contexts, c)
         /\ madeVia' = w
    ELSE SameContexts

ul_context_alloc(w) ==
    IF ~ul_toengine(w)
    THEN /\ last' = ClosedEngine("context_alloc", w, <<>>)
         /\ SameContexts
    ELSE /\ Native(Outcome("context_alloc", w, <<>>, "none", nSnap + 1,
                           <<<<"uc_context_alloc", engine[w], 0>>>>))
         /\ Keep(NewContext(uc_context_alloc), w)

\* NeedsAlloc with a bug: the comparison is off by one.
NeedsAlloc_offByOne(args) == 1 + Len(args) <= 2

\* if (lua_gettop(L) < 2): the caller passed no context.
NeedsAlloc(args) == 1 + Len(args) < 2

\* The Lua stack of ul_context_save once a context is at index 2: the engine
\* object, the caller's other arguments and, when ul_context_alloc ran, the
\* context it pushed.
SaveStack(w, args) ==
    <<w>> \o args \o (IF NeedsAlloc(args) THEN <<nSnap + 1>> ELSE <<>>)

\* return 1: the value on top of the stack.
StackTop(stack) == stack[Len(stack)]

ul_context_save(w, args) ==
    LET stack == SaveStack(w, args)
        h == engine[w]
        alloc == <<"uc_context_alloc", h, 0>>
        save == <<"uc_context_save", h, stack[2]>>
    IN  IF ~ul_toengine(w)
        THEN /\ last' = ClosedEngine("context_save", w, args)
             /\ SameContexts
        ELSE IF NeedsAlloc(args)
        THEN LET c == NewContext(uc_context_alloc)
             IN  /\ \/ last' = ul_crash_on_error(Failed(
                                  Outcome("context_save", w, args, "none", 0,
                                          <<alloc>>)))
                    \/ \E ptr \in ul_tocontext(c) :
                           Native(WithContext(
                                      Outcome("context_save", w, args, "none",
                                              StackTop(stack), <<alloc, save>>),
                                      ptr, c))
                 /\ Keep(c, w)
        ELSE /\ SameContexts
             /\ \E ptr \in ul_tocontext(contexts[stack[2]]) :
                    Native(WithContext(
                               Outcome("context_save", w, args, "none",
                                       StackTop(stack), <<save>>),
                               ptr, contexts[stack[2]]))

ul_context_restore(w, s) ==
    IF ~ul_toengine(w)
    THEN last' = ClosedEngine("context_restore", w, <<s>>)
    ELSE \E ptr \in ul_tocontext(contexts[s]) :
             Native(WithContext(
                        Outcome("context_restore", w, <<s>>, "none", 0,
                                <<<<"uc_context_restore", engine[w], s>>>>),
                        ptr, contexts[s]))

\* Context userdata the host holds.
Snapshots == 1..nSnap

ContextAlloc(w) ==
    /\ ~crashed
    /\ status[w] = "held"
    /\ ul_toengine(w) => nSnap < MaxSnapshots
    /\ ul_context_alloc(w)
    /\ UNCHANGED engineVars

\* engine:context_save(...) with no further argument, with a context, or
\* with a context and one more value (here the integer 0).
ContextSave(w, args) ==
    /\ ~crashed
    /\ status[w] = "held"
    /\ ul_toengine(w) /\ NeedsAlloc(args) => nSnap < MaxSnapshots
    /\ ul_context_save(w, args)
    /\ UNCHANGED engineVars

ContextRestore(w, s) ==
    /\ ~crashed
    /\ status[w] = "held"
    /\ ul_context_restore(w, s)
    /\ UNCHANGED <<engineVars, nSnap, contexts, madeVia>>

\* ----------------------------------------------------------- pass-through
\* The query types of unicorn.h: UC_QUERY_MODE, UC_QUERY_PAGE_SIZE.
QueryTypes == {1, 2}

\* query_type = luaL_checkinteger(L, 1)
QueryTypeIndex == 1

\* The Lua stack of engine:query(t).
QueryStack(w, t) ==
    <<[type |-> "userdata", v |-> w], [type |-> "integer", v |-> t]>>

\* luaL_checkinteger raises an argument error on a value that is no integer:
\* index 1 holds the engine object.
ul_query(w, t) ==
    LET query_type == QueryStack(w, t)[QueryTypeIndex]
    IN  IF ~ul_toengine(w)
        THEN last' = ClosedEngine("query", w, <<t>>)
        ELSE IF query_type.type # "integer"
        THEN last' = Outcome("query", w, <<t>>, "badarg", 0, <<>>)
        ELSE Native(Outcome("query", w, <<t>>, "none", 0,
                            <<<<"uc_query", engine[w], query_type.v>>>>))

ul_errno(w) ==
    last' = IF ~ul_toengine(w) THEN ClosedEngine("errno", w, <<>>)
            ELSE Outcome("errno", w, <<>>, "none", 0,
                         <<<<"uc_errno", engine[w], 0>>>>)

ul_emu_start(w) ==
    IF ~ul_toengine(w)
    THEN last' = ClosedEngine("emu_start", w, <<>>)
    ELSE Native(Outcome("emu_start", w, <<>>, "none", 0,
                        <<<<"uc_emu_start", engine[w], 0>>>>))

ul_emu_stop(w) ==
    IF ~ul_toengine(w)
    THEN last' = ClosedEngine("emu_stop", w, <<>>)
    ELSE Native(Outcome("emu_stop", w, <<>>, "none", 0,
                        <<<<"uc_emu_stop", engine[w], 0>>>>))

Query(w, t) ==
    /\ ~crashed /\ status[w] = "held"
    /\ ul_query(w, t)
    /\ UNCHANGED <<engineVars, nSnap, contexts, madeVia>>

Errno(w) ==
    /\ ~crashed /\ status[w] = "held"
    /\ ul_errno(w)
    /\ UNCHANGED <<engineVars, nSnap, contexts, madeVia>>

EmuStart(w) ==
    /\ ~crashed /\ status[w] = "held"
    /\ ul_emu_start(w)
    /\ UNCHANGED <<engineVars, nSnap, contexts, madeVia>>

EmuStop(w) ==
    /\ ~crashed /\ status[w] = "held"
    /\ ul_emu_stop(w)
    /\ UNCHANGED <<engineVars, nSnap, contexts, madeVia>>

\* The argument lists context_save is called with after the engine object.
SaveArgs == {<<>>} \cup {<<s>> : s \in Snapshots}
                \cup {<<s, 0>> : s \in Snapshots}

\* Creation, hooks, close, collection and lookup of engine objects.
Lifecycle ==
    \/ Open
    \/ \E w \in Wrappers : HookAdd(w)
    \/ \E w \in Wrappers : Close(w)
    \/ \E w \in Wrappers : Collect(w)
    \/ \E w \in Wrappers : Finalize(w)
    \/ \E h \in Handles : Lookup(h)

\* The operations that reach the engine through ul_toengine.
Operations ==
    \/ \E w \in Wrappers : ContextAlloc(w)
    \/ \E w \in Wrappers, args \in SaveArgs : ContextSave(w, args)
    \/ \E w \in Wrappers, s \in Snapshots : ContextRestore(w, s)
    \/ \E w \in Wrappers, t \in QueryTypes : Query(w, t)
    \/ \E w \in Wrappers : Errno(w)
    \/ \E w \in Wrappers : EmuStart(w)
    \/ \E w \in Wrappers : EmuStop(w)

\* The operations on engines the host opens, holds and closes.
OpsNext ==
    \/ Open
    \/ \E w \in Wrappers : Close(w)
    \/ Operations

Next == Lifecycle \/ Operations

Spec == Init /\ [][Next]_vars

LifeSpec == Init /\ [][Lifecycle]_vars

OpsSpec == Init /\ [][OpsNext]_vars

\* ================================================================= claims
CloseOps == {"close", "gc"}

GuardedOps == {"context_alloc", "context_save", "context_restore", "query",
               "errno", "emu_start", "emu_stop"}

\* The hook ids the hook manager's delete was called with, in call order.
Deleted(nat) ==
    LET dels == SelectSeq(nat, LAMBDA c : c[1] = "hook_del")
    IN  [i \in 1..Len(dels) |-> dels[i][3]]

\* The last operation was the first close call made on its engine object:
\* the one that finds the hook table.
FirstClose == last.op \in CloseOps /\ ~last.again

\* C1: whatever uc_close returns, uc_close is called exactly once for an
\* engine object on which close calls (explicit or __gc) were made, and no
\* close call after the first raises an error.
C1_NativeCloseExactlyOnce ==
    /\ \A w \in Wrappers : ClosedBefore(w) => ucCloses[w] = 1
    /\ last.op \in CloseOps /\ last.again => last.err = "none"

\* C2: once close(w) has returned, every operation that goes through
\* ul_toengine raises the closed-engine error and has called no function of
\* the Unicorn library.
C2_ClosedEngineGuard ==
    (/\ last.op \in GuardedOps
     /\ explicit[last.w]
     /\ engine[last.w] = NULL)
        => last.err = "closed" /\ last.nat = <<>>

\* C2 witness: context_save ran on an engine object closed before.
C2_Witness ==
    /\ last.op = "context_save"
    /\ explicit[last.w]
    /\ engine[last.w] = NULL

\* C3: an engine object collected without an explicit close has gone through
\* the whole close sequence in its finalizer: its hooks deleted and its hook
\* table reference released, uc_close called exactly once, no entry left in
\* the pointer map, its engine pointer NULL.
C3_FinalizerClosesFully ==
    \A w \in Wrappers :
        status[w] = "freed" /\ ~explicit[w] =>
            /\ ucCloses[w] = 1
            /\ hook_table_ref[w] = LUA_NOREF
            /\ \A h \in Handles : ptrMap[h] # w
            /\ engine[w] = NULL

\* C4 as stated: the first close of an engine object calls the hook
\* manager's delete for the keys of its hook table in insertion order.
C4_InsertionOrder ==
    FirstClose => Deleted(last.nat) = last.arg

\* C4 amended: the first close of an engine object calls the hook manager's
\* delete exactly once for every key of its hook table, in the order the
\* traversal yields them, and leaves the table empty and its reference
\* released.
C4_EachHookDeletedOnce ==
    FirstClose =>
        /\ Len(Deleted(last.nat)) = Len(last.arg)
        /\ Range(Deleted(last.nat)) = Range(last.arg)
        /\ hookTable[Head(freeRefs)] = <<>>
        /\ hook_table_ref[last.w] = LUA_NOREF

\* C4 witness: a close found three hooks and deleted them in another order
\* than they were added in.
C4_Witness ==
    /\ FirstClose
    /\ Len(last.arg) = 3
    /\ Deleted(last.nat) # last.arg

\* C5: within a close call every call of the hook manager's delete comes
\* before uc_close, and a close call that deletes hooks is the first to call
\* uc_close for its engine: no hook is deleted once uc_close was called.
C5_DeletesBeforeNativeClose ==
    last.op \in CloseOps =>
        /\ \A i, j \in 1..Len(last.nat) :
               last.nat[i][1] = "uc_close" /\ last.nat[j][1] = "hook_del" => j < i
        /\ Deleted(last.nat) # <<>> => ucCloses[last.w] = 1

\* C5 witness: a close call deleted two hooks or more and called uc_close.
C5_Witness ==
    /\ last.op \in CloseOps
    /\ Len(Deleted(last.nat)) >= 2
    /\ ucCloses[last.w] = 1

\* C6: an engine object whose engine pointer is NULL holds no hook table
\* reference, every released hook table is empty, the pointer map has no
\* entry that resolves to the object, and right after the close that
\* succeeded the pointer map has no entry for the engine it closed.
C6_ClosedIsDrainedAndUnregistered ==
    /\ \A w \in Wrappers :
           status[w] # "unalloc" /\ engine[w] = NULL =>
               /\ hook_table_ref[w] = LUA_NOREF
               /\ \A h \in Handles : ptrMap[h] # w
    /\ \A r \in Refs \ refs : hookTable[r] = <<>>
    /\ last.op \in CloseOps /\ last.err = "none" /\ last.nat # <<>> =>
           ptrMap[last.nat[Len(last.nat)][2]] = NULL

\* C6 witness: an explicit close of an engine with a hook succeeded and the
\* host still holds the object.
C6_Witness ==
    /\ last.op = "close"
    /\ last.err = "none"
    /\ Len(last.arg) >= 1
    /\ status[last.w] = "held"
    /\ engine[last.w] = NULL

\* C7: while the host holds an engine object that is not closed, the pointer
\* map resolves its engine to that very object, and a lookup of its engine
\* returns it, whatever was registered, looked up or unregistered meanwhile.
C7_RegistryRoundTrip ==
    \A w \in Wrappers :
        status[w] = "held" /\ engine[w] # NULL =>
            /\ ptrMap[engine[w]] = w
            /\ last.op = "lookup" /\ last.arg = <<engine[w]>> =>
                   last.err = "none" /\ last.ret = w

\* C7 witness: a lookup returned the second engine object after the first
\* one was closed and unregistered.
C7_Witness ==
    /\ last.op = "lookup"
    /\ last.ret = 2
    /\ status[1] = "held"
    /\ engine[1] = NULL

\* C8: a lookup of an engine that has no entry in the pointer map raises the
\* not-found error and leaves the pointer map as it was.
C8_LookupMissKeepsRegistry ==
    [][(last'.op = "lookup" /\ ptrMap[last'.arg[1]] = NULL) =>
           /\ last'.err = "notfound"
           /\ last'.ret = 0
           /\ ptrMap' = ptrMap]_vars

\* C8 witness: a lookup missed the engine of an object closed before.
C8_Witness ==
    /\ last.op = "lookup"
    /\ last.err = "notfound"
    /\ \E w \in Wrappers : status[w] = "held" /\ engine[w] = NULL

\* C9: context_save that returns after a call with no context returns the
\* context created by that call, which is none of those that existed; after
\* a call with context s it returns s itself, and uc_context_save was called
\* on s.
C9_SnapshotIdentity ==
    last.op = "context_save" /\ last.err = "none" =>
        /\ Len(last.arg) = 0 =>
               /\ last.ret = nSnap
               /\ last.nat[Len(last.nat)][1] = "uc_context_save"
               /\ last.nat[Len(last.nat)][3] = nSnap
        /\ Len(last.arg) = 1 =>
               /\ last.ret = last.arg[1]
               /\ last.nat = <<<<"uc_context_save", engine[last.w], last.arg[1]>>>>

\* C9 witness: context_save returned the first of two contexts it was
\* called with.
C9_Witness ==
    /\ last.op = "context_save"
    /\ last.err = "none"
    /\ last.arg = <<1>>
    /\ nSnap = 2

\* uc_close has not been called for the open engine h.
NotYetClosed(h) ==
    h \in ucLive /\ \A w \in Wrappers : engine[w] = h => ucCloses[w] = 0

\* The engine objects that exist.
Alive == {w \in Wrappers : status[w] \in {"held", "tobefnz"}}

\* C10: every open engine for which uc_close has not been called is held by
\* exactly one engine object, to which alone the pointer map can resolve it,
\* and no two engine objects hold the same engine.
C10_OneWrapperPerHandle ==
    /\ \A h \in Handles :
           NotYetClosed(h) =>
               /\ Cardinality({w \in Alive : engine[w] = h}) = 1
               /\ ptrMap[h] # NULL => engine[ptrMap[h]] = h
    /\ \A v, w \in Alive : engine[v] # NULL /\ engine[v] = engine[w] => v = w

\* C10 witness: the second engine object holds the address the first one
\* held before it was closed.
C10_Witness ==
    /\ status[1] = "held"
    /\ engine[1] = NULL
    /\ status[2] = "held"
    /\ engine[2] = 1

\* The operations that take a context userdata.
ContextOps == {"context_save", "context_restore"}

\* C11: a host operation calls each function of the Unicorn library at most
\* once, and when the status it got back is an error the operation ends by
\* raising it through ul_crash_on_error.
C11_NoRetryErrorsRaised ==
    last.op \in GuardedOps \cup CloseOps =>
        /\ \A i, j \in 1..Len(last.nat) :
               i # j /\ last.nat[i][1] # "hook_del" =>
                   last.nat[i][1] # last.nat[j][1]
        /\ last.uc_err = "error" => last.err = "native"

\* C11 witness: context_save without a context raised the error status of
\* uc_context_save after uc_context_alloc had succeeded.
C11_Witness ==
    /\ last.op = "context_save"
    /\ last.uc_err = "error"
    /\ Len(last.nat) = 2

\* C12: an engine object whose engine pointer is NULL keeps it NULL in every
\* step, whatever the step is.
C12_ClosedIsTerminal ==
    [][\A w \in Wrappers :
           status[w] # "unalloc" /\ engine[w] = NULL => engine'[w] = NULL]_vars

\* C12 witness: the engine address of a closed object was handed out again
\* and went to a new object, while the closed one stayed closed.
C12_Witness ==
    /\ last.op = "open"
    /\ last.w = 2
    /\ last.arg = <<1>>
    /\ status[1] = "held"
    /\ explicit[1]
    /\ engine[1] = NULL

\* C13: save and restore hand the library the context that uc_context_alloc
\* allocated for the context userdata they are given.
C13_ContextWrapsNativeHandle ==
    last.op \in ContextOps /\ last.ctx # <<>> =>
        LET s == last.nat[Len(last.nat)][3]
        IN  s \in Snapshots => last.ctx = <<contexts[s].native>>

\* C14: a close call on an engine object whose engine pointer is NULL
\* returns without error, calls neither the hook manager nor uc_close, and
\* changes no field of the object, no registry reference, no hook table and
\* no entry of the pointer map.
C14_CloseOnClosedIsNoOp ==
    [][(last'.op \in CloseOps /\ engine[last'.w] = NULL) =>
           /\ last'.err = "none"
           /\ last'.nat = <<>>
           /\ UNCHANGED <<engine, hook_table_ref, refs, freeRefs, hookTable,
                          ptrMap, ucLive, ucCloses, failures, crashed>>]_vars

\* C14 witness: an explicit close ran on an object closed before, with
\* another engine open and registered.
C14_Witness ==
    /\ last.op = "close"
    /\ last.again
    /\ last.nat = <<>>
    /\ engine[last.w] = NULL
    /\ ucCloses[last.w] = 1
    /\ \E v \in Wrappers : engine[v] # NULL /\ ptrMap[engine[v]] = v

\* C15: every engine object whose engine pointer is not NULL holds a hook
\* table reference that designates a table of the registry.
C15_OpenHasHookTable ==
    \A w \in Alive :
        engine[w] # NULL =>
            hook_table_ref[w] # LUA_NOREF /\ hook_table_ref[w] \in refs

\* C16: every entry of the pointer map leads from an engine to an engine
\* object the host holds whose engine pointer is that engine.
C16_RegistryEntriesMatch ==
    \A h \in Handles :
        ptrMap[h] # NULL =>
            /\ status[ptrMap[h]] = "held"
            /\ engine[ptrMap[h]] = h

\* C16 witness: the entry of an engine is still in the pointer map after a
\* close of its object raised the error of uc_close.
C16_Witness ==
    \E w \in Wrappers :
        /\ status[w] = "held"
        /\ ucCloses[w] = 1
        /\ engine[w] # NULL
        /\ ptrMap[engine[w]] = w

C18_QueryPassesCallerType ==
    last.op = "query" /\ last.err # "closed" =>
        /\ last.nat = <<<<"uc_query", engine[last.w], last.arg[1]>>>>
        /\ last.err \in {"none", "native"}

\* C19: opening engine h gives a new engine object whose engine pointer is
\* h, adds the entry of h to the pointer map and changes no other entry, and
\* gives the object an empty hook table under a reference no open engine
\* object holds.
C19_CreateRegistersFreshObject ==
    [][last'.op = "open" =>
           LET w == last'.w
               h == last'.arg[1]
               r == hook_table_ref'[w]
           IN  /\ status[w] = "unalloc" /\ status'[w] = "held"
               /\ engine'[w] = h
               /\ ptrMap[h] = NULL /\ ptrMap'[h] = w
               /\ \A x \in Handles \ {h} : ptrMap'[x] = ptrMap[x]
               /\ r \in refs' \ refs
               /\ hookTable'[r] = <<>>
               /\ \A q \in refs : hookTable'[q] = hookTable[q]
               /\ \A v \in Wrappers \ {w} :
                      /\ hook_table_ref'[v] # r
                      /\ engine'[v] = engine[v]]_vars

\* C19 witness: a second engine was opened while the first one was open
\* with hooks in its table.
C19_Witness ==
    /\ last.op = "open"
    /\ last.w = 2
    /\ status[1] = "held"
    /\ engine[1] # NULL
    /\ hook_table_ref[1] # LUA_NOREF
    /\ Len(hookTable[hook_table_ref[1]]) >= 2

\* C20: a close call on w calls the hook manager and uc_close for the engine
\* of w only, and leaves every other engine object as it was: its engine
\* pointer, its hook table reference and hook table, its entry in the
\* pointer map and its engine inside the library.
C20_CloseTouchesOnlyItsOwn ==
    [][last'.op \in CloseOps =>
           /\ \A i \in 1..Len(last'.nat) : last'.nat[i][2] = engine[last'.w]
           /\ \A v \in Wrappers \ {last'.w} :
                  /\ engine'[v] = engine[v]
                  /\ hook_table_ref'[v] = hook_table_ref[v]
                  /\ ucCloses'[v] = ucCloses[v]
                  /\ hook_table_ref[v] # LUA_NOREF =>
                         hookTable'[hook_table_ref[v]] = hookTable[hook_table_ref[v]]
                  /\ engine[v] # NULL =>
                         /\ ptrMap'[engine[v]] = ptrMap[engine[v]]
                         /\ engine[v] \in ucLive => engine[v] \in ucLive']_vars

\* C20 witness: an engine with hooks was closed while another engine object
\* was open, registered and had a hook of its own.
C20_Witness ==
    /\ last.op = "close"
    /\ last.err = "none"
    /\ Len(last.arg) >= 1
    /\ \E v \in Wrappers \ {last.w} :
           /\ status[v] = "held"
           /\ engine[v] # NULL
           /\ ptrMap[engine[v]] = v
           /\ hook_table_ref[v] # LUA_NOREF
           /\ hookTable[hook_table_ref[v]] # <<>>

====
